---- MODULE Spec2Model ----
(***************************************************************************)
(* SpotiBot (src/main.py): the process boundary (__main__), the            *)
(* construction of the bot, the control loop run() and every method it     *)
(* calls, as one sequential state machine.  The browser, the site, the     *)
(* clock, the file system and the mail relay are the environment: their    *)
(* answers are nondeterministic choices.                                   *)
(***************************************************************************)
EXTENDS Integers, Sequences, FiniteSets, TLC

\* ---------------------------------------------------------------- bounds
MaxHour == 1      \* hours of the day are 0..MaxHour in the model
MaxClicks == 2    \* click counters saturate here

Hours == 0..MaxHour

\* ------------------------------------------------------- program constants
SleepActive == 60
SleepInactive == 300

RequiredStrings == {"PLAYLIST_LINK", "LOGIN_USERNAME", "LOGIN_PASSWORD"}
ParsedFields == {"START_HOUR", "END_HOUR", "SHUFFLE", "HEADLESS"}
NotificationFields == {"SENDER_EMAIL", "RECEIVER_EMAIL", "APP_PASSWORD"}
EnvFields == RequiredStrings \cup ParsedFields \cup NotificationFields

ClickKinds == {"ui", "play", "shuffle", "skip"}

VARIABLES
    \* configuration (.env) -------------------------------------------------
    dotenv,                 \* the set of variables the environment defines
    START_HOUR, END_HOUR, SHUFFLE,
    \* the bot --------------------------------------------------------------
    pc,                     \* position of the single thread of control
    bot,                    \* FALSE while the name bot is None in __main__
    driver,                 \* "None" | "alive" | "dead" | "quit"
    use_local_chromedriver,
    within_active_hours,
    new_cookies,
    pending,                \* exception in flight: "none" | "Exception" | "SystemExit"
    \* the environment ------------------------------------------------------
    hour,                   \* datetime.now().hour
    playing,                \* aria-label of the play/pause control is "Pause"
    remote,                 \* the "Playing on ..." element is clickable
    shuffleOn,              \* aria-checked of the shuffle control
    page,                   \* the settings page: banner, language, loggedIn
    cookiesFile,            \* cookies.pkl: "absent" | "corrupt" | "old" | "saved"
    wdmDir,                 \* the .wdm directory exists
    platform,               \* sys.platform as read at line 133 ("unread" before)
    \* what happened (history of the current tick / of the exit) -------------
    tickAlive,              \* is_driver_active() at the start of the tick
    obsRemote, obsPlaying,  \* results read at line 283: "unk" | "T" | "F"
    cmds,                   \* playback commands invoked in this tick, in order
    clicks,                 \* clicks issued in this tick, by kind
    initLog,                \* steps of initialize_webdriver in this tick
    auth,                   \* what setup_spotify_player did in this tick
    quitInTick,             \* run() called driver.quit() in this tick
    sleepSecs,              \* argument of the sleep that ended the tick (0: none yet)
    fatal,                  \* first cause of termination, "none" while running
    handled,                \* the except Exception clause was entered
    notifications,          \* mails handed to the relay
    exitStatus,             \* -1 while the process runs
    interrupted,            \* a KeyboardInterrupt was delivered while run() executed
    warned,                 \* the except KeyboardInterrupt clause logged its warning
    abandoned               \* a session that was never quit has been replaced

cfgVars == <<dotenv, START_HOUR, END_HOUR, SHUFFLE>>
botVars == <<bot, driver, use_local_chromedriver, within_active_hours, new_cookies>>
envVars == <<hour, playing, remote, shuffleOn, page, cookiesFile, wdmDir, platform>>
tickVars == <<tickAlive, obsRemote, obsPlaying, cmds, clicks, initLog, auth, quitInTick, sleepSecs>>
exitVars == <<fatal, handled, notifications, exitStatus>>
histVars == <<interrupted, warned, abandoned>>
vars == <<cfgVars, pc, botVars, pending, envVars, tickVars, exitVars, histVars>>

\* ---------------------------------------------------------------- helpers
Min(a, b) == IF a < b THEN a ELSE b

NoClicks == [k \in ClickKinds |-> 0]

Bump(c, k) == [c EXCEPT ![k] = Min(@ + 1, MaxClicks)]

NoAuth == [load |-> "none", consent |-> FALSE, language |-> FALSE,
           formSeen |-> FALSE, login |-> FALSE, saved |-> FALSE, done |-> FALSE]

BoolStr(b) == IF b THEN "T" ELSE "F"

\* The .env files considered: everything defined, one required or parsed
\* field missing, or any subset of the notification triple missing.
DotenvChoices ==
    {EnvFields \ m : m \in SUBSET NotificationFields}
        \cup {EnvFields \ {f} : f \in RequiredStrings \cup ParsedFields}

\* main.py:306  None not in [SENDER_EMAIL, RECEIVER_EMAIL, APP_PASSWORD]
NotificationConfigured == NotificationFields \subseteq dotenv

\* line 277 with the end of the window excluded
WithinActiveHours_exclusiveEnd(h, s, e) == s <= h /\ h < e

\* main.py:277  START_HOUR <= datetime.now().hour <= END_HOUR
WithinActiveHours(h, s, e) == s <= h /\ h <= e

\* main.py:271-272
is_driver_active == driver = "alive"

\* line 294 without its liveness test
SleepSeconds_always60(active) == SleepActive

\* main.py:294
SleepSeconds(active) == IF active THEN SleepActive ELSE SleepInactive

\* An exception leaves run() or __init__: SystemExit (sys.exit) passes the
\* except clauses of __main__ and goes to finally; an Exception enters
\* the except Exception clause.
Raise(kind, why) ==
    /\ pc' = IF kind = "Exception" THEN "except_Exception" ELSE "finally"
    /\ pending' = kind
    /\ fatal' = why

Continue(next) ==
    /\ pc' = next
    /\ UNCHANGED <<pending, fatal>>

\* ------------------------------------------------------------------- Init
Init ==
    /\ dotenv \in DotenvChoices
    /\ START_HOUR \in (IF "START_HOUR" \in dotenv THEN Hours ELSE {0})
    /\ END_HOUR \in (IF "END_HOUR" \in dotenv THEN Hours ELSE {0})
    /\ SHUFFLE \in (IF "SHUFFLE" \in dotenv THEN BOOLEAN ELSE {FALSE})
    /\ pc = "main"
    /\ bot = FALSE
    /\ driver = "None"
    /\ use_local_chromedriver = FALSE
    /\ within_active_hours = FALSE
    /\ new_cookies = FALSE
    /\ pending = "none"
    /\ hour = 0
    /\ playing = FALSE
    /\ remote = FALSE
    /\ shuffleOn = FALSE
    /\ page = [banner |-> FALSE, language |-> "absent", loggedIn |-> FALSE]
    /\ cookiesFile \in {"absent", "corrupt", "old"}
    /\ wdmDir \in BOOLEAN
    /\ platform = "unread"
    /\ tickAlive = FALSE
    /\ obsRemote = "unk"
    /\ obsPlaying = "unk"
    /\ cmds = <<>>
    /\ clicks = NoClicks
    /\ initLog = <<>>
    /\ auth = NoAuth
    /\ quitInTick = FALSE
    /\ sleepSecs = 0
    /\ fatal = "none"
    /\ handled = FALSE
    /\ notifications = 0
    /\ exitStatus = -1
    /\ interrupted = FALSE
    /\ warned = FALSE
    /\ abandoned = FALSE

\* ------------------------------------------------- SpotiBot.__init__ (39-72)
\* int(None) and None.lower() raise before the validation at line 67; the
\* validation exits through sys.exit(1).  Either way the name bot stays None.
Construct ==
    /\ pc = "main"
    /\ IF ~(ParsedFields \subseteq dotenv)
         THEN Raise("Exception", "config_parse") /\ UNCHANGED bot
         ELSE IF ~(EnvFields \subseteq dotenv)
           THEN Raise("SystemExit", "config_missing") /\ UNCHANGED bot
           ELSE Continue("tick") /\ bot' = TRUE
    /\ UNCHANGED <<cfgVars, driver, use_local_chromedriver, within_active_hours,
                   new_cookies, envVars, tickVars, handled, notifications, exitStatus,
                   histVars>>

\* ------------------------------------------------------ run, lines 276-281
\* A new tick: read the clock, decide, and test the session's liveness
\* (line 279 inside the window, line 290 outside).
TickStart ==
    /\ pc = "tick"
    /\ \E h \in Hours :
         /\ hour' = h
         /\ within_active_hours' = WithinActiveHours(h, START_HOUR, END_HOUR)
    /\ tickAlive' = is_driver_active
    /\ pc' = IF within_active_hours'
               THEN (IF is_driver_active THEN "check_playback" ELSE "initialize_webdriver")
               ELSE (IF is_driver_active THEN "quit" ELSE "sleep")
    /\ obsRemote' = "unk"
    /\ obsPlaying' = "unk"
    /\ cmds' = <<>>
    /\ clicks' = NoClicks
    /\ initLog' = <<>>
    /\ auth' = NoAuth
    /\ quitInTick' = FALSE
    /\ sleepSecs' = 0
    /\ UNCHANGED <<cfgVars, bot, driver, use_local_chromedriver, new_cookies, pending,
                   playing, remote, shuffleOn, page, cookiesFile, wdmDir, platform,
                   exitVars,
                   histVars>>

\* The settings page as a fresh load can show it: the consent banner may be
\* up, the language select may be missing, in English or in another locale.
PageStates(logged) ==
    {[banner |-> b, language |-> l, loggedIn |-> logged] :
        b \in BOOLEAN, l \in {"absent", "en-GB", "other"}}

\* main.py:127 and 83  self.driver = webdriver.Chrome(...): the previous
\* object is dropped; if it was never quit (it failed is_driver_active
\* without a quit) its session has not been torn down.
Replaces(old, before) == before \/ old = "dead"

\* main.py:133-137  the values of sys.platform the code tells apart
Platforms == {"linux", "win", "other"}

\* main.py:133-136  the platforms whose .wdm directory the code can locate
WdmDirectoryKnown(p) == p \in {"linux", "win"}

\* ------------------------------------- initialize_webdriver, lines 122-143
\* With use_local_chromedriver set the primary strategy is skipped.  When
\* the primary strategy fails the flag is set and the .wdm directory is
\* removed, if the platform is known and the directory exists.
InitializeWebdriver ==
    /\ pc = "initialize_webdriver"
    /\ IF use_local_chromedriver
         THEN /\ Continue("initialize_local_webdriver")
              /\ UNCHANGED <<driver, use_local_chromedriver, wdmDir, platform, initLog,
                             abandoned>>
         ELSE \/ /\ driver' = "alive"
                 /\ abandoned' = Replaces(driver, abandoned)
                 /\ wdmDir' = TRUE
                 /\ initLog' = Append(initLog, "primary_ok")
                 /\ Continue("setup_spotify_player")
                 /\ UNCHANGED <<use_local_chromedriver, platform>>
              \/ /\ use_local_chromedriver' = TRUE
                 /\ \E p \in Platforms :
                      /\ platform' = p
                      /\ wdmDir' = IF WdmDirectoryKnown(p) THEN FALSE ELSE wdmDir
                 /\ initLog' = Append(initLog, "primary_failed")
                 /\ Continue("initialize_local_webdriver")
                 /\ UNCHANGED <<driver, abandoned>>
    /\ UNCHANGED <<cfgVars, bot, within_active_hours, new_cookies, hour, playing, remote,
                   shuffleOn, page, cookiesFile, tickAlive, obsRemote,
                   obsPlaying, cmds, clicks, auth, quitInTick, sleepSecs, handled,
                   notifications, exitStatus,
                   interrupted, warned>>

\* ------------------------- initialize_local_webdriver, lines 80-87 (and 145)
InitializeLocalWebdriver ==
    /\ pc = "initialize_local_webdriver"
    /\ \/ /\ driver' = "alive"
          /\ abandoned' = Replaces(driver, abandoned)
          /\ initLog' = Append(initLog, "local_ok")
          /\ Continue("setup_spotify_player")
       \/ /\ initLog' = Append(initLog, "local_failed")
          /\ Raise("SystemExit", "local_webdriver_failed")
          /\ UNCHANGED <<driver, abandoned>>
    /\ UNCHANGED <<cfgVars, bot, use_local_chromedriver, within_active_hours, new_cookies,
                   envVars, tickAlive, obsRemote, obsPlaying, cmds, clicks, auth,
                   quitInTick, sleepSecs, handled, notifications, exitStatus,
                   interrupted, warned>>

\* ------------------------------------ setup_spotify_player, lines 238-239
SetupSpotifyPlayer ==
    /\ pc = "setup_spotify_player"
    /\ IF ~is_driver_active
         THEN Raise("Exception", "surface_dead") /\ UNCHANGED <<page, new_cookies>>
         ELSE /\ page' \in PageStates(FALSE)
              /\ new_cookies' = FALSE
              /\ Continue("load_cookies")
    /\ UNCHANGED <<cfgVars, bot, driver, use_local_chromedriver, within_active_hours,
                   hour, playing, remote, shuffleOn, cookiesFile, wdmDir, platform,
                   tickVars, handled, notifications, exitStatus,
                   histVars>>

\* ------------------------------------ setup_spotify_player, lines 240-245
\* os.path.exists guards only the missing file; open and pickle.load are not
\* guarded.  Whether the site accepts the injected cookies is its choice.
LoadCookies ==
    /\ pc = "load_cookies"
    /\ CASE cookiesFile = "absent" ->
              /\ auth' = [auth EXCEPT !.load = "missing"]
              /\ Continue("probe_consent")
              /\ UNCHANGED page
         [] cookiesFile = "corrupt" ->
              /\ auth' = [auth EXCEPT !.load = "failed"]
              /\ Raise("Exception", "credentials_load")
              /\ UNCHANGED page
         [] OTHER ->
              IF ~is_driver_active
                THEN /\ Raise("Exception", "surface_dead")
                     /\ UNCHANGED <<page, auth>>
                ELSE /\ auth' = [auth EXCEPT !.load = "loaded"]
                     /\ \E accepted \in BOOLEAN : page' \in PageStates(accepted)
                     /\ Continue("probe_consent")
    /\ UNCHANGED <<cfgVars, botVars, hour, playing, remote, shuffleOn, cookiesFile,
                   wdmDir, platform, tickAlive, obsRemote, obsPlaying, cmds, clicks,
                   initLog, quitInTick, sleepSecs, handled, notifications, exitStatus,
                   histVars>>

\* ---------- setup_spotify_player, lines 248-250, and accept_cookies (167-170)
ProbeConsent ==
    /\ pc = "probe_consent"
    /\ IF ~is_driver_active
         THEN /\ Raise("Exception", "surface_dead")
              /\ UNCHANGED <<page, new_cookies, auth, clicks>>
         ELSE IF page.banner
           THEN \/ /\ Raise("SystemExit", "element_not_found")
                   /\ UNCHANGED <<page, new_cookies, auth, clicks>>
                \/ /\ Raise("SystemExit", "click_failed")
                   /\ UNCHANGED <<page, new_cookies, auth, clicks>>
                \/ /\ clicks' = Bump(clicks, "ui")
                   /\ page' = [page EXCEPT !.banner = FALSE]
                   /\ new_cookies' = TRUE
                   /\ auth' = [auth EXCEPT !.consent = TRUE]
                   /\ Continue("probe_language")
           ELSE /\ Continue("probe_language")
                /\ UNCHANGED <<page, new_cookies, auth, clicks>>
    /\ UNCHANGED <<cfgVars, bot, driver, use_local_chromedriver, within_active_hours,
                   hour, playing, remote, shuffleOn, cookiesFile, wdmDir, platform,
                   tickAlive, obsRemote, obsPlaying, cmds, initLog, quitInTick,
                   sleepSecs, handled, notifications, exitStatus,
                   histVars>>

\* -- setup_spotify_player, lines 251-253, and set_language_to_english (188-193)
\* find_elements(...)[0] on an empty list raises IndexError.
ProbeLanguage ==
    /\ pc = "probe_language"
    /\ IF ~is_driver_active
         THEN /\ Raise("Exception", "surface_dead")
              /\ UNCHANGED <<page, new_cookies, auth>>
         ELSE CASE page.language = "absent" ->
                    /\ Raise("Exception", "language_select_absent")
                    /\ UNCHANGED <<page, new_cookies, auth>>
               [] page.language = "other" ->
                    \/ /\ Raise("SystemExit", "element_not_found")
                       /\ UNCHANGED <<page, new_cookies, auth>>
                    \/ /\ page' = [page EXCEPT !.language = "en-GB"]
                       /\ new_cookies' = TRUE
                       /\ auth' = [auth EXCEPT !.language = TRUE]
                       /\ Continue("probe_login")
               [] OTHER ->
                    /\ Continue("probe_login")
                    /\ UNCHANGED <<page, new_cookies, auth>>
    /\ UNCHANGED <<cfgVars, bot, driver, use_local_chromedriver, within_active_hours,
                   hour, playing, remote, shuffleOn, cookiesFile, wdmDir, platform,
                   tickAlive, obsRemote, obsPlaying, cmds, clicks, initLog, quitInTick,
                   sleepSecs, handled, notifications, exitStatus,
                   histVars>>

\* main.py:254  the login button is on the page
LoginFormPresent(p) == ~p.loggedIn

\* --------------- setup_spotify_player, lines 254-256, and login (173-185)
ProbeLogin ==
    /\ pc = "probe_login"
    /\ IF ~is_driver_active
         THEN /\ Raise("Exception", "surface_dead")
              /\ UNCHANGED <<page, new_cookies, auth, clicks>>
         ELSE IF LoginFormPresent(page)
           THEN \/ /\ Raise("SystemExit", "element_not_found")
                   /\ auth' = [auth EXCEPT !.formSeen = TRUE]
                   /\ UNCHANGED <<page, new_cookies, clicks>>
                \/ /\ Raise("SystemExit", "click_failed")
                   /\ auth' = [auth EXCEPT !.formSeen = TRUE]
                   /\ UNCHANGED <<page, new_cookies, clicks>>
                \/ /\ clicks' = Bump(Bump(clicks, "ui"), "ui")
                   /\ page' = [page EXCEPT !.loggedIn = TRUE]
                   /\ new_cookies' = TRUE
                   /\ auth' = [auth EXCEPT !.formSeen = TRUE, !.login = TRUE]
                   /\ Continue("save_cookies")
           ELSE /\ Continue("save_cookies")
                /\ UNCHANGED <<page, new_cookies, auth, clicks>>
    /\ UNCHANGED <<cfgVars, bot, driver, use_local_chromedriver, within_active_hours,
                   hour, playing, remote, shuffleOn, cookiesFile, wdmDir, platform,
                   tickAlive, obsRemote, obsPlaying, cmds, initLog, quitInTick,
                   sleepSecs, handled, notifications, exitStatus,
                   histVars>>

\* line 257 with the test inverted
ShouldSave_inverted(nc) == ~nc

\* line 259 without the test of line 257
ShouldSave_always(nc) == TRUE

\* main.py:257  if new_cookies
ShouldSave(nc) == nc

\* ---------------- setup_spotify_player, lines 257-261, and save_cookies (230-234)
SaveCookies ==
    /\ pc = "save_cookies"
    /\ IF ShouldSave(new_cookies)
         THEN IF ~is_driver_active
                THEN /\ Raise("Exception", "surface_dead")
                     /\ UNCHANGED <<cookiesFile, auth>>
                ELSE /\ cookiesFile' = "saved"
                     /\ auth' = [auth EXCEPT !.saved = TRUE, !.done = TRUE]
                     /\ Continue("open_playlist")
         ELSE /\ auth' = [auth EXCEPT !.done = TRUE]
              /\ Continue("open_playlist")
              /\ UNCHANGED cookiesFile
    /\ UNCHANGED <<cfgVars, botVars, hour, playing, remote, shuffleOn, page, wdmDir,
                   platform, tickAlive, obsRemote, obsPlaying, cmds, clicks, initLog,
                   quitInTick, sleepSecs, handled, notifications, exitStatus,
                   histVars>>

\* ------------------------------------ setup_spotify_player, lines 263-268
\* The playlist page is opened and the three controls are waited for.
OpenPlaylist ==
    /\ pc = "open_playlist"
    /\ IF ~is_driver_active
         THEN Raise("Exception", "surface_dead")
         ELSE \/ Raise("SystemExit", "element_not_found")
              \/ Continue("check_playback")
    /\ UNCHANGED <<cfgVars, botVars, envVars, tickVars, handled, notifications,
                   exitStatus,
                   histVars>>

\* line 283 without its other-device test
ShouldStartPlayback_ignoresRemote(other, music) == ~music

\* line 283 without its is_music_playing test
ShouldStartPlayback_ignoresMusic(other, music) == ~other

\* main.py:283  not is_playing_on_another_device() and not is_music_playing()
ShouldStartPlayback(other, music) == ~other /\ ~music

\* lines 283-285 with toggle_shuffle outside the if of line 283
CheckPlayback_reconcilesShuffle ==
    /\ pc = "check_playback"
    /\ IF ~is_driver_active
         THEN /\ Raise("Exception", "surface_dead")
              /\ UNCHANGED <<obsRemote, obsPlaying, cmds>>
         ELSE /\ obsRemote' = BoolStr(remote)
              /\ obsPlaying' = IF remote THEN "unk" ELSE BoolStr(playing)
              /\ IF ShouldStartPlayback(remote, playing)
                   THEN /\ cmds' = Append(cmds, "toggle_play_pause")
                        /\ Continue("toggle_play_pause")
                   ELSE /\ Continue("toggle_shuffle")
                        /\ UNCHANGED cmds
    /\ UNCHANGED <<cfgVars, botVars, envVars, tickAlive, clicks, initLog, auth,
                   quitInTick, sleepSecs, handled, notifications, exitStatus,
                   histVars>>

\* ------------------------------------------------------ run, lines 283-284
\* is_playing_on_another_device (222-227) answers False on its timeout;
\* is_music_playing (207-208) is read only when that answer is False.
CheckPlayback ==
    /\ pc = "check_playback"
    /\ IF ~is_driver_active
         THEN /\ Raise("Exception", "surface_dead")
              /\ UNCHANGED <<obsRemote, obsPlaying, cmds>>
         ELSE /\ obsRemote' = BoolStr(remote)
              /\ obsPlaying' = IF remote THEN "unk" ELSE BoolStr(playing)
              /\ IF ShouldStartPlayback(remote, playing)
                   THEN /\ cmds' = Append(cmds, "toggle_play_pause")
                        /\ Continue("toggle_play_pause")
                   ELSE /\ Continue("sleep")
                        /\ UNCHANGED cmds
    /\ UNCHANGED <<cfgVars, botVars, envVars, tickAlive, clicks, initLog, auth,
                   quitInTick, sleepSecs, handled, notifications, exitStatus,
                   histVars>>

\* line 212 as a single fire-and-forget pass
NeedsClick_never(music, play) == FALSE

\* main.py:212  while self.is_music_playing() != play
NeedsClick(music, play) == music # play

\* ------------------- toggle_play_pause(True), lines 211-215: one iteration
\* A click may or may not have changed what the control shows when it is
\* read again.
TogglePlayPause ==
    /\ pc = "toggle_play_pause"
    /\ IF ~is_driver_active
         THEN /\ Raise("Exception", "surface_dead")
              /\ UNCHANGED <<playing, clicks, cmds>>
         ELSE IF NeedsClick(playing, TRUE)
           THEN \/ /\ Raise("SystemExit", "click_failed")
                   /\ UNCHANGED <<playing, clicks, cmds>>
                \/ /\ clicks' = Bump(clicks, "play")
                   /\ playing' \in BOOLEAN
                   /\ Continue("toggle_play_pause")
                   /\ UNCHANGED cmds
           ELSE /\ cmds' = Append(cmds, "toggle_shuffle")
                /\ Continue("toggle_shuffle")
                /\ UNCHANGED <<playing, clicks>>
    /\ UNCHANGED <<cfgVars, botVars, hour, remote, shuffleOn, page, cookiesFile, wdmDir,
                   platform, tickAlive, obsRemote, obsPlaying, initLog, auth, quitInTick,
                   sleepSecs, handled, notifications, exitStatus,
                   histVars>>

\* line 287 without the test of line 286
ShouldSkip_always(sh) == TRUE

\* main.py:286  if self.SHUFFLE
ShouldSkip(sh) == sh

\* line 200 without the test of line 199
ShuffleDiffers_always(wanted, shown) == TRUE

\* main.py:199  self.SHUFFLE != self.string_to_bool(current_state)
ShuffleDiffers(wanted, shown) == wanted # shown

\* ---------------------------------------------- toggle_shuffle, lines 196-204
\* The confirmation wait of line 202 may time out: the state after the click
\* is whatever the control shows.
ToggleShuffle ==
    /\ pc = "toggle_shuffle"
    /\ IF ~is_driver_active
         THEN /\ Raise("Exception", "surface_dead")
              /\ UNCHANGED <<shuffleOn, clicks>>
         ELSE \/ /\ Raise("SystemExit", "element_not_found")
                 /\ UNCHANGED <<shuffleOn, clicks>>
              \/ /\ ShuffleDiffers(SHUFFLE, shuffleOn)
                 /\ Raise("SystemExit", "click_failed")
                 /\ UNCHANGED <<shuffleOn, clicks>>
              \/ /\ ShuffleDiffers(SHUFFLE, shuffleOn)
                 /\ clicks' = Bump(clicks, "shuffle")
                 /\ shuffleOn' \in BOOLEAN
                 /\ Continue(IF ShouldSkip(SHUFFLE) THEN "skip_track" ELSE "sleep")
              \/ /\ ~ShuffleDiffers(SHUFFLE, shuffleOn)
                 /\ Continue(IF ShouldSkip(SHUFFLE) THEN "skip_track" ELSE "sleep")
                 /\ UNCHANGED <<shuffleOn, clicks>>
    /\ UNCHANGED <<cfgVars, botVars, hour, playing, remote, page, cookiesFile, wdmDir,
                   platform, tickAlive, obsRemote, obsPlaying, cmds, initLog, auth,
                   quitInTick, sleepSecs, handled, notifications, exitStatus,
                   histVars>>

\* -------------------------------------- skip_track, lines 218-219 (run: 287)
SkipTrack ==
    /\ pc = "skip_track"
    /\ cmds' = Append(cmds, "skip_track")
    /\ IF ~is_driver_active
         THEN Raise("SystemExit", "click_failed") /\ UNCHANGED clicks
         ELSE \/ Raise("SystemExit", "click_failed") /\ UNCHANGED clicks
              \/ clicks' = Bump(clicks, "skip") /\ Continue("sleep")
    /\ UNCHANGED <<cfgVars, botVars, envVars, tickAlive, obsRemote, obsPlaying, initLog,
                   auth, quitInTick, sleepSecs, handled, notifications, exitStatus,
                   histVars>>

\* ------------------------------------------------------------- environment
\* The browser or its driver service dies: is_connectable() turns False.
DriverCrash ==
    /\ pc \notin {"exited"}
    /\ driver = "alive"
    /\ driver' = "dead"
    /\ UNCHANGED <<cfgVars, pc, bot, use_local_chromedriver, within_active_hours,
                   new_cookies, pending, envVars, tickVars, exitVars,
                   histVars>>

\* The player changes by itself: a track list ends, the listener acts on the
\* account from another device.
SurfaceChanges ==
    /\ pc \notin {"exited"}
    /\ driver = "alive"
    /\ \/ playing' = ~playing /\ UNCHANGED <<remote, shuffleOn>>
       \/ remote' = ~remote /\ UNCHANGED <<playing, shuffleOn>>
       \/ shuffleOn' = ~shuffleOn /\ UNCHANGED <<playing, remote>>
    /\ UNCHANGED <<cfgVars, pc, botVars, pending, hour, page, cookiesFile, wdmDir,
                   platform, tickVars, exitVars,
                   histVars>>

\* lines 290-292 without the quit of line 291
QuitOutsideWindow_keepsSession ==
    /\ pc = "quit"
    /\ quitInTick' = TRUE
    /\ Continue("sleep")
    /\ UNCHANGED <<cfgVars, botVars, envVars, tickAlive, obsRemote, obsPlaying, cmds,
                   clicks, initLog, auth, sleepSecs, handled, notifications, exitStatus,
                   histVars>>

\* ------------------------------------------------------ run, lines 290-292
QuitOutsideWindow ==
    /\ pc = "quit"
    /\ driver' = "quit"
    /\ quitInTick' = TRUE
    /\ Continue("sleep")
    /\ UNCHANGED <<cfgVars, bot, use_local_chromedriver, within_active_hours, new_cookies,
                   envVars, tickAlive, obsRemote, obsPlaying, cmds, clicks, initLog, auth,
                   sleepSecs, handled, notifications, exitStatus,
                   histVars>>

\* ------------------------------------------------------------ run, line 294
Sleep ==
    /\ pc = "sleep"
    /\ sleepSecs' = SleepSeconds(is_driver_active)
    /\ Continue("tick")
    /\ UNCHANGED <<cfgVars, botVars, envVars, tickAlive, obsRemote, obsPlaying, cmds,
                   clicks, initLog, auth, quitInTick, handled, notifications, exitStatus,
                   histVars>>

\* The positions of the thread of control that lie inside run().
RunPositions ==
    {"tick", "initialize_webdriver", "initialize_local_webdriver",
     "setup_spotify_player", "load_cookies", "probe_consent", "probe_language",
     "probe_login", "save_cookies", "open_playlist", "check_playback",
     "toggle_play_pause", "toggle_shuffle", "skip_track", "quit", "sleep"}

\* ------------------------------- an interrupt signal while run() executes
\* KeyboardInterrupt is no Exception: the handlers of lines 153 and 162 let
\* it pass to __main__.  The bare except clauses of lines 128 and 85 catch
\* it when it arrives while a driver is being constructed: the first treats
\* it as a failure of the primary strategy, the second calls sys.exit(1).
KeyboardInterrupt ==
    /\ bot
    /\ ~interrupted
    /\ pc \in RunPositions
    /\ interrupted' = TRUE
    /\ \/ /\ pc' = "except_KeyboardInterrupt"
          /\ pending' = "KeyboardInterrupt"
          /\ fatal' = "KeyboardInterrupt"
          /\ UNCHANGED <<use_local_chromedriver, wdmDir, platform, initLog>>
       \/ /\ pc = "initialize_webdriver"
          /\ ~use_local_chromedriver
          /\ use_local_chromedriver' = TRUE
          /\ \E p \in Platforms :
               /\ platform' = p
               /\ wdmDir' = IF WdmDirectoryKnown(p) THEN FALSE ELSE wdmDir
          /\ initLog' = Append(initLog, "primary_failed")
          /\ Continue("initialize_local_webdriver")
       \/ /\ pc = "initialize_local_webdriver"
          /\ initLog' = Append(initLog, "local_failed")
          /\ Raise("SystemExit", "local_webdriver_failed")
          /\ UNCHANGED <<use_local_chromedriver, wdmDir, platform>>
    /\ UNCHANGED <<cfgVars, bot, driver, within_active_hours, new_cookies, hour, playing,
                   remote, shuffleOn, page, cookiesFile, tickAlive, obsRemote,
                   obsPlaying, cmds, clicks, auth, quitInTick, sleepSecs, handled,
                   notifications, exitStatus, warned, abandoned>>

\* --------------------------------------------------- __main__, lines 302-303
ExceptKeyboardInterrupt ==
    /\ pc = "except_KeyboardInterrupt"
    /\ warned' = TRUE
    /\ pending' = "none"
    /\ pc' = "finally"
    /\ UNCHANGED <<cfgVars, botVars, envVars, tickVars, exitVars, interrupted, abandoned>>

\* --------------------------------------------------- __main__, lines 304-310
\* bot.logger on a None bot raises inside the clause; so may the mail relay.
ExceptException ==
    /\ pc = "except_Exception"
    /\ handled' = TRUE
    /\ pc' = "finally"
    /\ IF ~bot
         THEN pending' = "Exception" /\ UNCHANGED notifications
         ELSE IF NotificationConfigured
           THEN \/ pending' = "none" /\ notifications' = notifications + 1
                \/ pending' = "Exception" /\ UNCHANGED notifications
           ELSE pending' = "none" /\ UNCHANGED notifications
    /\ UNCHANGED <<cfgVars, botVars, envVars, tickVars, fatal, exitStatus,
                   histVars>>

\* --------------------------------------------------- __main__, lines 311-313
\* After finally the interpreter ends: status 1 with an exception in flight
\* (sys.exit(1) or an uncaught one), status 0 otherwise.
Finally ==
    /\ pc = "finally"
    /\ pc' = "exited"
    /\ IF ~bot
         THEN pending' = "Exception" /\ UNCHANGED driver
         ELSE /\ UNCHANGED pending
              /\ driver' = IF is_driver_active THEN "quit" ELSE driver
    /\ exitStatus' = IF pending' = "none" THEN 0 ELSE 1
    /\ UNCHANGED <<cfgVars, bot, use_local_chromedriver, within_active_hours, new_cookies,
                   envVars, tickVars, fatal, handled, notifications,
                   histVars>>

Next ==
    \/ Construct
    \/ TickStart
    \/ InitializeWebdriver
    \/ InitializeLocalWebdriver
    \/ SetupSpotifyPlayer
    \/ LoadCookies
    \/ ProbeConsent
    \/ ProbeLanguage
    \/ ProbeLogin
    \/ SaveCookies
    \/ OpenPlaylist
    \/ CheckPlayback
    \/ TogglePlayPause
    \/ ToggleShuffle
    \/ SkipTrack
    \/ DriverCrash
    \/ SurfaceChanges
    \/ QuitOutsideWindow
    \/ Sleep
    \/ KeyboardInterrupt
    \/ ExceptKeyboardInterrupt
    \/ ExceptException
    \/ Finally

Spec == Init /\ [][Next]_vars

\* ------------------------------------------- the schedule decision alone
\* datetime.now().hour ranges over the hours of a day.
LastHour == 23

DayHours == 0..LastHour

\* A constructed bot between two ticks, with every .env field defined, no
\* session yet and nothing recorded.
BetweenTicks ==
    /\ dotenv = EnvFields
    /\ bot = TRUE
    /\ use_local_chromedriver = FALSE
    /\ new_cookies = FALSE
    /\ pending = "none"
    /\ remote = FALSE
    /\ page = [banner |-> FALSE, language |-> "en-GB", loggedIn |-> TRUE]
    /\ platform = "unread"
    /\ initLog = <<>>
    /\ auth = NoAuth
    /\ quitInTick = FALSE
    /\ sleepSecs = 0
    /\ fatal = "none"
    /\ handled = FALSE
    /\ notifications = 0
    /\ exitStatus = -1
    /\ interrupted = FALSE
    /\ warned = FALSE
    /\ abandoned = FALSE

\* Every configured window and every hour of the day, at line 277.
InitSchedule ==
    /\ BetweenTicks
    /\ START_HOUR \in DayHours
    /\ END_HOUR \in DayHours
    /\ hour \in DayHours
    /\ SHUFFLE = FALSE
    /\ pc = "tick"
    /\ driver = "None"
    /\ within_active_hours = FALSE
    /\ playing = FALSE
    /\ shuffleOn = FALSE
    /\ cookiesFile = "absent"
    /\ wdmDir = FALSE
    /\ tickAlive = FALSE
    /\ obsRemote = "unk"
    /\ obsPlaying = "unk"
    /\ cmds = <<>>
    /\ clicks = NoClicks

\* ------------------------------------------------------ run, lines 277-278
EvaluateSchedule ==
    /\ pc = "tick"
    /\ within_active_hours' = WithinActiveHours(hour, START_HOUR, END_HOUR)
    /\ pc' = "decided"
    /\ UNCHANGED <<cfgVars, bot, driver, use_local_chromedriver, new_cookies, pending,
                   envVars, tickVars, exitVars, histVars>>

NextSchedule == EvaluateSchedule

SpecSchedule == InitSchedule /\ [][NextSchedule]_vars

\* -------------------------------------------- the convergence loop alone
\* run() has just invoked toggle_play_pause(True) at line 284 on a session
\* that was alive at the start of the tick.
InitToggle ==
    /\ BetweenTicks
    /\ START_HOUR \in Hours
    /\ END_HOUR \in Hours
    /\ hour \in Hours
    /\ WithinActiveHours(hour, START_HOUR, END_HOUR)
    /\ within_active_hours = TRUE
    /\ SHUFFLE \in BOOLEAN
    /\ pc = "toggle_play_pause"
    /\ driver = "alive"
    /\ playing \in BOOLEAN
    /\ shuffleOn \in BOOLEAN
    /\ cookiesFile \in {"old", "saved"}
    /\ wdmDir = TRUE
    /\ tickAlive = TRUE
    /\ obsRemote = "F"
    /\ obsPlaying = "F"
    /\ cmds = <<"toggle_play_pause">>
    /\ clicks = NoClicks

NextToggle == TogglePlayPause

\* a click after which the control shows "Pause"
ClickTakesEffect == TogglePlayPause /\ ~playing /\ playing'

\* the test of line 212 fails and the method returns
LoopReturns == TogglePlayPause /\ pc' = "toggle_shuffle"

\* The thread keeps running, so a loop whose test fails returns; a click
\* that is tried again and again is assumed to take effect at last.
SpecToggleFair ==
    /\ InitToggle
    /\ [][NextToggle]_vars
    /\ WF_vars(LoopReturns)
    /\ SF_vars(ClickTakesEffect)

\* ===================================================================== claims
Exited == pc = "exited"

TickCompleted == pc = "tick" /\ sleepSecs # 0

PlaybackClicks == clicks["play"] + clicks["shuffle"] + clicks["skip"]

AllClicks == PlaybackClicks + clicks["ui"]

IsPrefix(s, t) == Len(s) <= Len(t) /\ SubSeq(t, 1, Len(s)) = s

\* C1: when a required control is not found within its timeout or a scripted
\* click fails, the process ends with the session torn down, a non-zero
\* status and, if the notification triple is configured, one notification
\* sent.
C1_RequiredControlFailureNotifies ==
    (Exited /\ fatal \in {"element_not_found", "click_failed"})
        => /\ driver # "alive"
           /\ exitStatus # 0
           /\ (NotificationConfigured => notifications = 1)

\* C2: when an exception raised inside run() reaches the except Exception
\* clause, the notification is sent if configured (and the relay took it),
\* the session is torn down and the exit status is non-zero.
C2_UncaughtExceptionExitsNonZero ==
    (Exited /\ handled /\ bot)
        => /\ (NotificationConfigured /\ pending = "none" => notifications = 1)
           /\ driver # "alive"
           /\ exitStatus # 0

\* C3: when the primary construction strategy failed and the local one failed
\* too, the local one was attempted exactly once, after the .wdm directory
\* was cleared, the exit status is non-zero and, if the notification triple
\* is configured, exactly one notification was sent.
C3_FallbackOnceThenNotify ==
    (Exited /\ fatal = "local_webdriver_failed" /\ Len(initLog) > 0
            /\ Head(initLog) = "primary_failed")
        => /\ initLog = <<"primary_failed", "local_failed">>
           /\ ~wdmDir
           /\ exitStatus # 0
           /\ (NotificationConfigured => notifications = 1)

\* C4: in a tick in which is_playing_on_another_device() answered True, and
\* in every tick outside the active window, no play/pause, shuffle or skip
\* command is invoked and no such click is issued.
C4_RemoteDeviceSuppresses ==
    (obsRemote = "T" \/ ~within_active_hours)
        => (cmds = <<>> /\ PlaybackClicks = 0)

\* a finished tick inside the window in which another device was seen while
\* the music was not playing here
C4_Witness ==
    /\ TickCompleted
    /\ within_active_hours
    /\ obsRemote = "T"
    /\ ~playing
    /\ cmds = <<>>

\* C5: a tick outside the window with a live session never tears the session
\* down while music is playing here and on no other device (it is paused
\* first), and ends with a 300-second sleep.
C5_PausedBeforeTeardown ==
    (TickCompleted /\ ~within_active_hours /\ quitInTick)
        => (sleepSecs = SleepInactive /\ (remote \/ ~playing))

ExpectedStart ==
    <<"toggle_play_pause", "toggle_shuffle">>
        \o (IF SHUFFLE THEN <<"skip_track">> ELSE <<>>)

\* C6: in a tick inside the window where no other device and no music were
\* observed, the commands invoked are toggle_play_pause(True) once, then
\* toggle_shuffle, then skip_track once if SHUFFLE and never otherwise, in
\* that order; a tick that reaches its sleep has invoked all of them.
C6_StartSequence ==
    (within_active_hours /\ obsRemote = "F" /\ obsPlaying = "F")
        => /\ IsPrefix(cmds, ExpectedStart)
           /\ clicks["shuffle"] <= 1
           /\ clicks["skip"] <= (IF SHUFFLE THEN 1 ELSE 0)
           /\ TickCompleted
                => (cmds = ExpectedStart
                      /\ clicks["skip"] = (IF SHUFFLE THEN 1 ELSE 0))

\* a finished start-up tick with SHUFFLE set: three commands, one skip click
C6_Witness ==
    /\ TickCompleted
    /\ within_active_hours
    /\ obsRemote = "F"
    /\ obsPlaying = "F"
    /\ SHUFFLE
    /\ cmds = <<"toggle_play_pause", "toggle_shuffle", "skip_track">>
    /\ clicks["play"] >= 1
    /\ clicks["skip"] = 1

\* C7: in a tick inside the window that found the session alive and the music
\* playing, and in a tick outside the window that found no live session, no
\* click of any kind is issued and no playback command is invoked.
C7_NoClickWhenConverged ==
    (bot /\ (\/ within_active_hours /\ tickAlive /\ obsPlaying = "T"
             \/ ~within_active_hours /\ ~tickAlive))
        => (AllClicks = 0 /\ cmds = <<>>)

\* a finished tick that found the music playing with the shuffle control
\* differing from SHUFFLE
C7_Witness ==
    /\ TickCompleted
    /\ within_active_hours
    /\ tickAlive
    /\ obsPlaying = "T"
    /\ SHUFFLE # shuffleOn
    /\ AllClicks = 0

\* C8: a step of load_cookies that finds cookies.pkl missing or not
\* deserializable continues with the consent probe.
C8_LoadFailureNonFatal ==
    [][(pc = "load_cookies" /\ cookiesFile \in {"absent", "corrupt"} /\ pc' # pc)
          => pc' = "probe_consent"]_vars

\* C9: when setup_spotify_player loaded a credentials file and the login
\* form was still shown, a setup that reaches its end has performed the
\* login and has written the credentials file.
C9_RejectedCredentialsRelogin ==
    (auth.done /\ auth.load = "loaded" /\ auth.formSeen)
        => (auth.login /\ auth.saved /\ cookiesFile = "saved")

\* stored credentials were loaded and rejected, and the login was the only
\* remedial action of the setup
C9_Witness ==
    /\ auth.done
    /\ auth.load = "loaded"
    /\ auth.formSeen
    /\ ~auth.consent
    /\ ~auth.language
    /\ auth.login
    /\ cookiesFile = "saved"

ProbeContinues(at, absent, nexts) ==
    (pc = at /\ is_driver_active /\ absent /\ pc' # pc) => pc' \in nexts

\* C10: each probe of an optional condition (consent banner, language select,
\* login form, other device) whose element is absent answers false and the
\* flow continues with the next step.
C10_ProbesNeverTerminate ==
    [][/\ ProbeContinues("probe_consent", ~page.banner, {"probe_language"})
       /\ ProbeContinues("probe_language", page.language = "absent", {"probe_login"})
       /\ ProbeContinues("probe_login", page.loggedIn, {"save_cookies"})
       /\ ProbeContinues("check_playback", ~remote, {"toggle_play_pause", "sleep"})]_vars

\* C11: with every other field defined, a .env that lacks some or all of the
\* three notification fields still constructs the bot and is not rejected
\* as a configuration error.
C11_NotificationFieldsOptional ==
    ((RequiredStrings \cup ParsedFields) \subseteq dotenv /\ pc # "main")
        => (bot /\ fatal # "config_missing")

\* sessions that were constructed and not torn down
LiveHandles ==
    (IF driver \in {"alive", "dead"} THEN 1 ELSE 0) + (IF abandoned THEN 1 ELSE 0)

\* C12: at most one session that has not been torn down exists at any time;
\* no session is constructed over one that was never quit.
C12_AtMostOneHandle == LiveHandles <= 1

\* C13: a finished tick inside the active window has slept 60 seconds and a
\* finished tick outside it 300 seconds.
C13_SleepByWindow ==
    TickCompleted
        => sleepSecs = (IF within_active_hours THEN SleepActive ELSE SleepInactive)

\* C13 (amended): the sleep that ends a tick is 300 seconds outside the
\* window, and inside the window 60 seconds if the session is alive when
\* line 294 runs and 300 seconds if it is not.
C13_SleepByWindowAndLiveness ==
    [][(pc = "sleep" /\ pc' = "tick")
          => sleepSecs' = (IF within_active_hours /\ is_driver_active
                             THEN SleepActive ELSE SleepInactive)]_vars

\* a finished tick inside the window whose session died before line 294
C13_Witness ==
    /\ TickCompleted
    /\ within_active_hours
    /\ driver = "dead"
    /\ sleepSecs = SleepInactive

\* C14: an interrupt delivered while run() executes reaches the
\* KeyboardInterrupt clause of __main__, and a process that logged that
\* clause's warning ends with no live session, no notification and status 0.
C14_InterruptExitsClean ==
    /\ [][(interrupted' /\ ~interrupted) => pc' = "except_KeyboardInterrupt"]_vars
    /\ []((Exited /\ warned)
            => (driver # "alive" /\ notifications = 0 /\ exitStatus = 0))

\* C15: the decision taken at line 277 is true exactly for the hours of the
\* interval START_HOUR..END_HOUR, both ends included (and for no hour when
\* START_HOUR > END_HOUR), for every hour of the day and every window.
C15_InclusiveWindow ==
    pc = "decided"
        => /\ within_active_hours <=> hour \in START_HOUR..END_HOUR
           /\ hour \in {START_HOUR, END_HOUR} /\ START_HOUR <= END_HOUR
                 => within_active_hours
           /\ START_HOUR > END_HOUR => ~within_active_hours

\* the last hour of a proper window is decided active
C15_Witness ==
    /\ pc = "decided"
    /\ START_HOUR < END_HOUR
    /\ hour = END_HOUR
    /\ END_HOUR = LastHour
    /\ within_active_hours

RemedialFired == auth.consent \/ auth.language \/ auth.login

\* C16: setup_spotify_player writes the credentials file only after one of
\* the three remedial actions fired, and a setup that reaches its end has
\* written it exactly when one fired; otherwise the file is as it was loaded.
C16_SavedIffRemedial ==
    /\ auth.saved => RemedialFired
    /\ auth.done => (auth.saved <=> RemedialFired)
    /\ (auth.done /\ ~RemedialFired /\ auth.load = "loaded")
          => cookiesFile \in {"old", "saved"}

\* a finished setup that restored the stored credentials, fired no remedial
\* action and left the file alone
C16_Witness ==
    /\ auth.done
    /\ auth.load = "loaded"
    /\ ~RemedialFired
    /\ ~auth.saved
    /\ cookiesFile = "old"

\* C17: toggle_play_pause(True) returns only when the control shows
\* "Pause"; it has no iteration bound, and it leaves the loop eventually
\* (returning, or exiting on a failed click) provided a click that keeps
\* being tried eventually takes effect.
C17_ConvergenceLoop ==
    /\ [][(pc = "toggle_play_pause" /\ pc' = "toggle_shuffle")
            => (playing /\ playing')]_vars
    /\ [][(pc = "toggle_play_pause" /\ ~playing /\ pc' = pc)
            => clicks'["play"] = Min(clicks["play"] + 1, MaxClicks)]_vars
    /\ <>(pc # "toggle_play_pause")

\* still in the loop, the control still not showing "Pause", after as many
\* clicks as the counter can hold
C17_Witness ==
    /\ pc = "toggle_play_pause"
    /\ ~playing
    /\ clicks["play"] = MaxClicks

\* C18: a shuffle click is issued only by toggle_shuffle, at most once per
\* invocation and only when the control differs from SHUFFLE; after the
\* click the flow continues with the skip or the sleep, whether or not the
\* control then shows SHUFFLE.
C18_ShuffleClickOnceTolerant ==
    [][(pc # "tick" /\ clicks'["shuffle"] # clicks["shuffle"])
          => /\ pc = "toggle_shuffle"
             /\ SHUFFLE # shuffleOn
             /\ clicks["shuffle"] = 0
             /\ clicks'["shuffle"] = 1
             /\ pc' = (IF SHUFFLE THEN "skip_track" ELSE "sleep")]_vars

\* a finished tick that clicked shuffle once, never saw it confirmed and
\* went on to its sleep
C18_Witness ==
    /\ TickCompleted
    /\ clicks["shuffle"] = 1
    /\ ~SHUFFLE
    /\ shuffleOn
    /\ cmds = <<"toggle_play_pause", "toggle_shuffle">>

\* C19: a finished tick outside the active window leaves no session alive; a
\* session comes alive only in a tick inside the window; with
\* START_HOUR > END_HOUR none is ever constructed.
C19_NoSessionOutsideWindow ==
    /\ []((TickCompleted /\ ~within_active_hours) => driver # "alive")
    /\ [](START_HOUR > END_HOUR => driver = "None")
    /\ [][(driver' = "alive" /\ driver # "alive") => within_active_hours]_vars

\* a finished tick outside the window that found the session alive and quit it
C19_Witness ==
    /\ TickCompleted
    /\ ~within_active_hours
    /\ tickAlive
    /\ quitInTick
    /\ driver = "quit"

\* C20: shuffle and skip commands and clicks occur only in a tick that
\* invoked toggle_play_pause(True) first; a tick that observed the music
\* playing issues no shuffle click, whatever the shuffle control shows.
C20_ShuffleOnlyAfterStart ==
    /\ (clicks["shuffle"] > 0 \/ clicks["skip"] > 0 \/ Len(cmds) > 0)
          => (obsPlaying = "F" /\ Head(cmds) = "toggle_play_pause")
    /\ obsPlaying = "T" => (clicks["shuffle"] = 0 /\ clicks["skip"] = 0)

\* a finished tick that saw the music playing with SHUFFLE wanted and the
\* control off, and left it off
C20_Witness ==
    /\ TickCompleted
    /\ obsRemote = "F"
    /\ obsPlaying = "T"
    /\ SHUFFLE
    /\ ~shuffleOn
    /\ clicks["shuffle"] = 0
    /\ cmds = <<>>
====
